---------------------------- MODULE Spec2Model ----------------------------
(***************************************************************************)
(* Model of libparistraceroute/protocols/udp.c: the UDP protocol           *)
(* descriptor (field table, default header, header size, checksum writer,  *)
(* pseudo-header creation).  Memory is modelled as byte sequences; the     *)
(* host byte order is a parameter of the build chosen in Init.             *)
(***************************************************************************)
EXTENDS Integers, Sequences, FiniteSets, TLC

VARIABLES
    host,          \* byte order of the host: "LE" or "BE"
    udp_default,   \* bytes of the static struct udphdr udp_default
    hdr,           \* caller's buffer: UDP header followed by payload
    psh,           \* caller's buffer_t * ip_psh: [null, data]
    ip_segment,    \* last IP segment handed to udp_create_pseudo_header
    pc,            \* position of the running call ("idle" between calls)
    op,            \* operation called last
    arg,           \* "null" / "buf": pointer argument of the last call
    ret,           \* bool result of the last call: "none", "true", "false"
    size_ret,      \* size_t result of the last call (-1: none)
    errno,         \* 0 or EINVAL
    scratch,       \* bytes of the malloc'ed block psh of udp_write_checksum
    heap,          \* state of that block: "none", "nomem", "live", "freed"
    frees,         \* number of free() calls made by the running/last call
    uaf,           \* the block was accessed while not live
    sum,           \* value returned by csum(), -1 before it is computed
    steps,         \* statements of udp_write_checksum executed so far
    oobW,          \* number of scratch bytes written outside the block
    oobR,          \* number of bytes read past the end of hdr
    hdr0,          \* hdr at the entry of the last call
    psh0           \* psh at the entry of the last call

vars == <<host, udp_default, hdr, psh, ip_segment, pc, op, arg, ret, size_ret,
          errno, scratch, heap, frees, uaf, sum, steps, oobW, oobR, hdr0, psh0>>

(***************************** bounds ***************************************)
\* largest caller buffer (header + payload), in bytes
MaxSeg == 9
\* how far the length field may exceed the largest caller buffer
MaxOver == 1

(*************************** program constants *****************************)
UDP_DEFAULT_SRC_PORT == 2828
UDP_DEFAULT_DST_PORT == 2828
\* sizeof(struct udphdr)
UdpHdrSize == 8
\* offsetof(struct udphdr, ...)
OffSrcPort == 0
OffDstPort == 2
OffLength == 4
OffChecksum == 6
\* sizeof(uint16_t)
SizeofU16 == 2
IPPROTO_UDP == 17
EINVAL == 22
\* sizeof(ipv4_pseudo_header_t) and sizeof(struct iphdr) without options
Ipv4PshSize == 12
Ipv4HdrSize == 20

NULL == [null |-> TRUE, data |-> <<>>]
Buf(d) == [null |-> FALSE, data |-> d]

\* values used for bytes the model draws freely (payload, stale memory)
ByteVals == {0, 255}
\* an uninitialised byte of a malloc'ed block
Uninit == -1

(***************************** byte order **********************************)
\* in-memory bytes of a uint16_t holding v
Native16(h, v) ==
    IF h = "BE" THEN <<v \div 256, v % 256>> ELSE <<v % 256, v \div 256>>

\* the uint16_t read from two bytes in memory
LoadNative16(h, b1, b2) == IF h = "BE" THEN b1 * 256 + b2 ELSE b2 * 256 + b1

Swap16(v) == (v % 256) * 256 + (v \div 256)

ntohs(h, v) == IF h = "BE" THEN v ELSE Swap16(v)

\* bytes[1 + off .. off + len] := src[1 .. len]; bytes outside bytes are lost
Poke(bytes, off, src) ==
    [i \in 1..Len(bytes) |->
        IF i > off /\ i <= off + Len(src) THEN src[i - off] ELSE bytes[i]]

Zeros(n) == [i \in 1..n |-> 0]

(***************************** field table *********************************)
\* static protocol_field_t udp_fields[], END_PROTOCOL_FIELDS included
udp_fields ==
    << [key |-> "src_port", type |-> "INT16", offset |-> OffSrcPort],
       [key |-> "dst_port", type |-> "INT16", offset |-> OffDstPort],
       [key |-> "length",   type |-> "INT16", offset |-> OffLength],
       [key |-> "checksum", type |-> "INT16", offset |-> OffChecksum],
       [key |-> "NULL",     type |-> "NONE",  offset |-> 0] >>

\* sizeof(udp_fields) / sizeof(protocol_field_t)
udp_get_num_fields == Len(udp_fields)

\* the descriptors declared in the table (those before the terminator)
DeclaredFields == {i \in 1..Len(udp_fields) : udp_fields[i].key # "NULL"}

udp_get_header_size(udp_header) == UdpHdrSize

\* static struct udphdr udp_default = { 2828, 2828, 0, 0 }: the initialisers
\* are plain host integers
UdpDefaultBytes(h) ==
    Native16(h, UDP_DEFAULT_SRC_PORT) \o Native16(h, UDP_DEFAULT_DST_PORT)
        \o Native16(h, 0) \o Native16(h, 0)

\* generic accessors: 16-bit fields are kept in network byte order
readField(bytes, f) == bytes[f.offset + 1] * 256 + bytes[f.offset + 2]

writeField(bytes, f, v) == Poke(bytes, f.offset, <<v \div 256, v % 256>>)

Field(k) == udp_fields[CHOOSE i \in 1..Len(udp_fields) : udp_fields[i].key = k]

(***************************** checksum ************************************)
RECURSIVE Fold(_)
Fold(s) == IF s > 65535 THEN Fold((s % 65536) + (s \div 65536)) ELSE s

RECURSIVE WordSumBE(_, _)
WordSumBE(bytes, i) ==
    IF i > Len(bytes) THEN 0
    ELSE IF i = Len(bytes) THEN bytes[i] * 256
    ELSE bytes[i] * 256 + bytes[i + 1] + WordSumBE(bytes, i + 2)

\* RFC 1071 over big-endian words; an odd trailing byte is a high byte
internetChecksum(bytes) == 65535 - Fold(WordSumBE(bytes, 1))

RECURSIVE WordSumNative(_, _, _)
WordSumNative(h, bytes, i) ==
    IF i > Len(bytes) THEN 0
    ELSE IF i = Len(bytes) THEN LoadNative16(h, bytes[i], 0)
    ELSE LoadNative16(h, bytes[i], bytes[i + 1]) + WordSumNative(h, bytes, i + 2)

\* csum(const uint16_t * bytes, size_t size): the words are uint16_t loads
csum(h, bytes) == 65535 - Fold(WordSumNative(h, bytes, 1))

(***************************** IP layer ************************************)
\* a 20-byte IPv4-shaped header with the given version nibble
IpSegment(version, tot_len, saddr, daddr) ==
    <<version * 16 + 5, 0, tot_len \div 256, tot_len % 256, 0, 0, 0, 0,
      64, IPPROTO_UDP, 0, 0>> \o saddr \o daddr

IpVersion(seg) == seg[1] \div 16

\* src(4) dst(4) zero(1) protocol(1) transport length(2)
ipv4_pseudo_header_create(seg) ==
    LET ihl == seg[1] % 16
        tot == seg[3] * 256 + seg[4]
        tl  == (tot - 4 * ihl) % 65536
    IN  Buf(SubSeq(seg, 13, 16) \o SubSeq(seg, 17, 20)
            \o <<0, seg[10], tl \div 256, tl % 256>>)

\* no dispatch on the IP version: the IPv4 builder is always used
udp_create_pseudo_header(seg) == ipv4_pseudo_header_create(seg)


(***************************** inputs **************************************)
RECURSIVE ByteSeqs(_)
ByteSeqs(n) ==
    IF n = 0 THEN {<<>>}
    ELSE {s \o <<b>> : s \in ByteSeqs(n - 1), b \in ByteVals}

\* values the caller stores in the length field: below the header size,
\* the header size, and up to MaxOver bytes more than the largest buffer
LenVals == {0, UdpHdrSize - 1} \cup (UdpHdrSize..(MaxSeg + MaxOver))

AddrVals == {<<10, 0, 0, 1>>, <<255, 255, 255, 255>>}

TotLens == {Ipv4HdrSize + UdpHdrSize, Ipv4HdrSize + MaxSeg}

IpVersions == {4, 5, 6}

\* no undefined behaviour has happened in the last call
Sane == oobW = 0 /\ oobR = 0

\* state of the locals of udp_write_checksum before the call
NoCall ==
    /\ scratch' = <<>>
    /\ heap' = "none"
    /\ frees' = 0
    /\ uaf' = FALSE
    /\ sum' = -1
    /\ steps' = <<>>
    /\ oobW' = 0
    /\ oobR' = 0

Enter(name, a) ==
    /\ pc = "idle"
    /\ op' = name
    /\ arg' = a
    /\ hdr0' = hdr
    /\ psh0' = psh
    /\ NoCall

(***************************** caller **************************************)
\* the caller allocates the buffer of a new packet: a zeroed header and
\* a payload; the pseudo-header of the previous packet is gone
NewPacket ==
    /\ \E n \in UdpHdrSize..MaxSeg : \E pl \in ByteSeqs(n - UdpHdrSize) :
           hdr' = Zeros(UdpHdrSize) \o pl
    /\ Enter("new_packet", "none")
    /\ psh' = NULL
    /\ ip_segment' = <<>>
    /\ ret' = "none"
    /\ size_ret' = -1
    /\ UNCHANGED <<host, udp_default, pc, errno>>

\* the caller sets the length field through the generic accessor
SetLength ==
    /\ Sane
    /\ \E l \in LenVals : hdr' = writeField(hdr, Field("length"), l)
    /\ Enter("set_length", "buf")
    /\ ip_segment' = <<>>
    /\ ret' = "none"
    /\ size_ret' = -1
    /\ UNCHANGED <<host, udp_default, psh, pc, errno>>

(***************************** queries *************************************)
GetNumFields ==
    /\ Sane
    /\ Enter("get_num_fields", "none")
    /\ size_ret' = udp_get_num_fields
    /\ ip_segment' = <<>>
    /\ ret' = "none"
    /\ UNCHANGED <<host, udp_default, hdr, psh, pc, errno>>

GetHeaderSize ==
    /\ Sane
    /\ \E withBuf \in BOOLEAN :
        /\ Enter("get_header_size", IF withBuf THEN "buf" ELSE "null")
        /\ size_ret' = udp_get_header_size(IF withBuf THEN Buf(hdr) ELSE NULL)
    /\ ip_segment' = <<>>
    /\ ret' = "none"
    /\ UNCHANGED <<host, udp_default, hdr, psh, pc, errno>>

(************************* default header **********************************)
\* a writer that copies one byte too few
udp_write_default_header_short(udp_header, tmpl) ==
    [size |-> UdpHdrSize,
     tmpl |-> tmpl,
     buf  |-> IF udp_header.null THEN udp_header
              ELSE Buf(Poke(udp_header.data, 0, SubSeq(tmpl, 1, UdpHdrSize - 1)))]

\* size = sizeof(struct udphdr); if (udp_header) memcpy(...); return size
udp_write_default_header(udp_header, tmpl) ==
    [size |-> UdpHdrSize,
     tmpl |-> tmpl,
     buf  |-> IF udp_header.null THEN udp_header
              ELSE Buf(Poke(udp_header.data, 0, SubSeq(tmpl, 1, UdpHdrSize)))]

WriteDefaultHeader ==
    /\ Sane
    /\ \E withBuf \in BOOLEAN :
        LET out == udp_write_default_header(
                       IF withBuf THEN Buf(hdr) ELSE NULL, udp_default)
        IN  /\ Enter("write_default_header", IF withBuf THEN "buf" ELSE "null")
            /\ hdr' = IF withBuf THEN out.buf.data ELSE hdr
            /\ udp_default' = out.tmpl
            /\ size_ret' = out.size
    /\ ip_segment' = <<>>
    /\ ret' = "none"
    /\ UNCHANGED <<host, psh, pc, errno>>

(************************* pseudo-header ***********************************)
\* the buffer_t allocation inside the builder may fail
CreatePseudoHeader ==
    /\ Sane
    /\ \E v \in IpVersions, t \in TotLens, sa \in AddrVals, ok \in BOOLEAN :
        LET seg == IpSegment(v, t, sa, <<10, 0, 0, 2>>)
        IN  /\ ip_segment' = seg
            /\ psh' = IF ok THEN udp_create_pseudo_header(seg) ELSE NULL
    /\ Enter("create_pseudo_header", "buf")
    /\ ret' = "none"
    /\ size_ret' = -1
    /\ UNCHANGED <<host, udp_default, hdr, pc, errno>>


(************************* udp_write_checksum ******************************)
\* ntohs(udp_hdr->LENGTH)
HdrLength(h, bytes) ==
    ntohs(h, LoadNative16(h, bytes[OffLength + 1], bytes[OffLength + 2]))

\* if (!ip_psh) { errno = EINVAL; return false; }
WC_Enter ==
    /\ Sane
    /\ Enter("write_checksum", IF psh.null THEN "null" ELSE "buf")
    /\ IF psh.null
       THEN /\ errno' = EINVAL
            /\ ret' = "false"
            /\ pc' = "idle"
       ELSE /\ errno' = errno
            /\ ret' = "none"
            /\ pc' = "wc_alloc"
    /\ size_ret' = -1
    /\ ip_segment' = <<>>
    /\ UNCHANGED <<host, udp_default, hdr, psh>>

\* an allocation step that clears the checksum of the header before malloc
WC_Alloc_ZeroFirst ==
    /\ pc = "wc_alloc"
    /\ LET size_psh == HdrLength(host, hdr) + Len(psh.data)
       IN  \E ok \in BOOLEAN :
             /\ hdr' = Poke(hdr, OffChecksum, Zeros(SizeofU16))
             /\ IF ok
                THEN /\ scratch' = [i \in 1..size_psh |-> Uninit]
                     /\ heap' = "live"
                     /\ pc' = "wc_copy_psh"
                     /\ ret' = ret
                ELSE /\ scratch' = <<>>
                     /\ heap' = "nomem"
                     /\ pc' = "idle"
                     /\ ret' = "false"
    /\ steps' = Append(steps, "alloc")
    /\ UNCHANGED <<host, udp_default, psh, ip_segment, op, arg, size_ret,
                   errno, frees, uaf, sum, oobW, oobR, hdr0, psh0>>

\* size_psh = ntohs(LENGTH) + buffer_get_size(ip_psh);
\* if (!(psh = malloc(size_psh))) return false;
WC_Alloc ==
    /\ pc = "wc_alloc"
    /\ LET size_psh == HdrLength(host, hdr) + Len(psh.data)
       IN  \E ok \in BOOLEAN :
             IF ok
             THEN /\ scratch' = [i \in 1..size_psh |-> Uninit]
                  /\ heap' = "live"
                  /\ pc' = "wc_copy_psh"
                  /\ ret' = ret
             ELSE /\ scratch' = <<>>
                  /\ heap' = "nomem"
                  /\ pc' = "idle"
                  /\ ret' = "false"
    /\ steps' = Append(steps, "alloc")
    /\ UNCHANGED <<host, udp_default, hdr, psh, ip_segment, op, arg, size_ret,
                   errno, frees, uaf, sum, oobW, oobR, hdr0, psh0>>

\* memcpy(psh, buffer_get_data(ip_psh), buffer_get_size(ip_psh));
WC_CopyPsh ==
    /\ pc = "wc_copy_psh"
    /\ scratch' = Poke(scratch, 0, psh.data)
    /\ uaf' = (uaf \/ heap # "live")
    /\ steps' = Append(steps, "copy_psh")
    /\ pc' = "wc_copy_seg"
    /\ UNCHANGED <<host, udp_default, hdr, psh, ip_segment, op, arg, ret,
                   size_ret, errno, heap, frees, sum, oobW, oobR, hdr0, psh0>>

\* memcpy(psh + buffer_get_size(ip_psh), udp_hdr, ntohs(udp_hdr->LENGTH));
\* bytes past the end of the caller's buffer are whatever memory holds,
\* or the read faults
WC_CopySeg ==
    /\ pc = "wc_copy_seg"
    /\ LET l    == HdrLength(host, hdr)
           over == IF l > Len(hdr) THEN l - Len(hdr) ELSE 0
           have == SubSeq(hdr, 1, l - over)
       IN  \/ /\ \E g \in ByteSeqs(over) :
                     scratch' = Poke(scratch, Len(psh.data), have \o g)
              /\ oobR' = over
              /\ uaf' = (uaf \/ heap # "live")
              /\ steps' = Append(steps, "copy_seg")
              /\ pc' = "wc_zero"
           \/ /\ over > 0
              /\ oobR' = over
              /\ pc' = "crashed"
              /\ UNCHANGED <<scratch, uaf, steps>>
    /\ UNCHANGED <<host, udp_default, hdr, psh, ip_segment, op, arg, ret,
                   size_ret, errno, heap, frees, sum, oobW, hdr0, psh0>>

\* number of bytes of a write of n bytes at offset off that fall outside
\* a block of size bytes
Outside(off, n, size) ==
    IF off + n <= size THEN 0
    ELSE IF off >= size THEN n ELSE off + n - size

\* the zeroing step left out
WC_Zero_Skipped ==
    /\ pc = "wc_zero"
    /\ steps' = Append(steps, "zero")
    /\ pc' = "wc_csum"
    /\ UNCHANGED <<host, udp_default, hdr, psh, ip_segment, op, arg, ret,
                   size_ret, errno, scratch, heap, frees, uaf, sum, oobW,
                   oobR, hdr0, psh0>>

\* memset(psh + buffer_get_size(ip_psh) + offsetof(struct udphdr, CHECKSUM),
\*        0, sizeof(uint16_t));
\* the part of the write that falls outside the block lands in whatever
\* follows it on the heap: unrelated memory, the caller's header, the
\* pseudo-header's data, or an unmapped page
WC_Zero ==
    /\ pc = "wc_zero"
    /\ LET off == Len(psh.data) + OffChecksum
           out == Outside(off, SizeofU16, Len(scratch))
       IN  /\ oobW' = out
           /\ \/ /\ scratch' = Poke(scratch, off, Zeros(SizeofU16))
                 /\ uaf' = (uaf \/ heap # "live")
                 /\ steps' = Append(steps, "zero")
                 /\ pc' = "wc_csum"
                 /\ \/ UNCHANGED <<hdr, psh>>
                    \/ /\ out > 0
                       /\ \E k \in 0..(Len(hdr) - out) :
                              hdr' = Poke(hdr, k, Zeros(out))
                       /\ psh' = psh
                    \/ /\ out > 0
                       /\ \E k \in 0..(Len(psh.data) - out) :
                              psh' = Buf(Poke(psh.data, k, Zeros(out)))
                       /\ hdr' = hdr
              \/ /\ out > 0
                 /\ pc' = "crashed"
                 /\ UNCHANGED <<scratch, uaf, steps, hdr, psh>>
    /\ UNCHANGED <<host, udp_default, ip_segment, op, arg, ret, size_ret,
                   errno, heap, frees, sum, oobR, hdr0, psh0>>

\* csum((const uint16_t *) psh, size_psh)
WC_Csum ==
    /\ pc = "wc_csum"
    /\ sum' = csum(host, scratch)
    /\ uaf' = (uaf \/ heap # "live")
    /\ steps' = Append(steps, "csum")
    /\ pc' = "wc_store"
    /\ UNCHANGED <<host, udp_default, hdr, psh, ip_segment, op, arg, ret,
                   size_ret, errno, scratch, heap, frees, oobW, oobR, hdr0,
                   psh0>>

\* udp_hdr->check = <the value csum returned>
WC_Store ==
    /\ pc = "wc_store"
    /\ hdr' = Poke(hdr, OffChecksum, Native16(host, sum))
    /\ steps' = Append(steps, "store")
    /\ pc' = "wc_free"
    /\ UNCHANGED <<host, udp_default, psh, ip_segment, op, arg, ret,
                   size_ret, errno, scratch, heap, frees, uaf, sum, oobW,
                   oobR, hdr0, psh0>>

\* the block is not released
WC_Free_Leak ==
    /\ pc = "wc_free"
    /\ steps' = Append(steps, "free")
    /\ pc' = "wc_return"
    /\ UNCHANGED <<host, udp_default, hdr, psh, ip_segment, op, arg, ret,
                   size_ret, errno, scratch, heap, frees, uaf, sum, oobW,
                   oobR, hdr0, psh0>>

\* free(psh);
WC_Free ==
    /\ pc = "wc_free"
    /\ heap' = "freed"
    /\ frees' = frees + 1
    /\ scratch' = <<>>
    /\ steps' = Append(steps, "free")
    /\ pc' = "wc_return"
    /\ UNCHANGED <<host, udp_default, hdr, psh, ip_segment, op, arg, ret,
                   size_ret, errno, uaf, sum, oobW, oobR, hdr0, psh0>>

\* return true;
WC_Return ==
    /\ pc = "wc_return"
    /\ ret' = "true"
    /\ pc' = "idle"
    /\ UNCHANGED <<host, udp_default, hdr, psh, ip_segment, op, arg,
                   size_ret, errno, scratch, heap, frees, uaf, sum, steps,
                   oobW, oobR, hdr0, psh0>>

(***************************** specification *******************************)
Init ==
    /\ host \in {"LE", "BE"}
    /\ udp_default = UdpDefaultBytes(host)
    /\ hdr = Zeros(UdpHdrSize)
    /\ psh = NULL
    /\ ip_segment = <<>>
    /\ pc = "idle"
    /\ op = "none"
    /\ arg = "none"
    /\ ret = "none"
    /\ size_ret = -1
    /\ errno = 0
    /\ scratch = <<>>
    /\ heap = "none"
    /\ frees = 0
    /\ uaf = FALSE
    /\ sum = -1
    /\ steps = <<>>
    /\ oobW = 0
    /\ oobR = 0
    /\ hdr0 = Zeros(UdpHdrSize)
    /\ psh0 = NULL

Next ==
    \/ NewPacket
    \/ SetLength
    \/ GetNumFields
    \/ GetHeaderSize
    \/ WriteDefaultHeader
    \/ CreatePseudoHeader
    \/ WC_Enter
    \/ WC_Alloc
    \/ WC_CopyPsh
    \/ WC_CopySeg
    \/ WC_Zero
    \/ WC_Csum
    \/ WC_Store
    \/ WC_Free
    \/ WC_Return

Spec == Init /\ [][Next]_vars


(***************************** properties **********************************)
Returned(name) == op = name /\ pc = "idle"

WcStages == {"wc_alloc", "wc_copy_psh", "wc_copy_seg", "wc_zero", "wc_csum",
             "wc_store"}

\* i is the index of the first occurrence of x in s, 0 if there is none
IndexOf(s, x) ==
    IF \E i \in 1..Len(s) : s[i] = x
    THEN CHOOSE i \in 1..Len(s) : s[i] = x /\ \A j \in 1..(i - 1) : s[j] # x
    ELSE 0

\* C1: when udp_write_checksum fails (ip_psh is NULL, or malloc fails) it
\* returns false to the caller, a NULL ip_psh also sets errno to EINVAL,
\* and every byte of the header is what it was before the call.
C1_FailureLeavesHeader ==
    Returned("write_checksum") =>
        /\ (arg = "null" => ret = "false" /\ errno = EINVAL)
        /\ (heap = "nomem" => ret = "false")
        /\ (ret = "false" => hdr = hdr0)

\* a failed allocation on a header whose checksum field is not zero
C1_Witness ==
    /\ Returned("write_checksum")
    /\ heap = "nomem"
    /\ ret = "false"
    /\ readField(hdr0, Field("checksum")) # 0
    /\ hdr = hdr0

\* C2: udp_write_default_header returns sizeof(struct udphdr) = 8, the
\* value of udp_get_header_size, with or without a buffer; without a
\* buffer nothing is written; with one, exactly the first 8 bytes become
\* the template, the bytes after them and the template are unchanged.
C2_DefaultHeaderModesAgree ==
    Returned("write_default_header") =>
        /\ size_ret = UdpHdrSize
        /\ size_ret = udp_get_header_size(NULL)
        /\ size_ret = udp_get_header_size(Buf(hdr))
        /\ udp_default = UdpDefaultBytes(host)
        /\ (arg = "null" => hdr = hdr0)
        /\ (arg = "buf" =>
               /\ Len(hdr) = Len(hdr0)
               /\ SubSeq(hdr, 1, size_ret) = udp_default
               /\ \A i \in (size_ret + 1)..Len(hdr) : hdr[i] = hdr0[i])

\* the template written over a header that held a non-zero checksum and is
\* followed by a non-zero payload byte
C2_Witness ==
    /\ Returned("write_default_header")
    /\ arg = "buf"
    /\ size_ret = UdpHdrSize
    /\ Len(hdr) > UdpHdrSize
    /\ hdr[UdpHdrSize + 1] # 0
    /\ hdr0[UdpHdrSize] # 0
    /\ SubSeq(hdr, 1, UdpHdrSize) = udp_default

\* C3: after udp_write_default_header filled a buffer, reading the fields
\* as network-byte-order 16-bit values gives 2828, 2828, 0, 0 whatever the
\* byte order of the host.
C3_DefaultsRoundTrip ==
    (Returned("write_default_header") /\ arg = "buf") =>
        /\ readField(hdr, Field("src_port")) = UDP_DEFAULT_SRC_PORT
        /\ readField(hdr, Field("dst_port")) = UDP_DEFAULT_DST_PORT
        /\ readField(hdr, Field("length")) = 0
        /\ readField(hdr, Field("checksum")) = 0

\* C4: after a successful udp_write_checksum on a segment whose length
\* field l is at least 8 (and whose l bytes the caller supplied), the
\* Internet checksum of the pseudo-header followed by the first l bytes of
\* the segment, checksum field included, is 0, and the field holds the
\* Internet checksum of the same bytes with the field zeroed.
C4_ChecksumSelfVerifying ==
    LET l == HdrLength(host, hdr0)
    IN  (/\ Returned("write_checksum")
         /\ ret = "true"
         /\ l >= UdpHdrSize
         /\ l <= Len(hdr0)) =>
            /\ internetChecksum(psh0.data \o SubSeq(hdr, 1, l)) = 0
            /\ readField(hdr, Field("checksum")) =
                   internetChecksum(psh0.data \o
                       Poke(SubSeq(hdr0, 1, l), OffChecksum, Zeros(SizeofU16)))

\* a checksum written on a little-endian host over an odd-length segment
\* with a non-zero payload byte and a stale non-zero checksum
C4_Witness ==
    /\ Returned("write_checksum")
    /\ ret = "true"
    /\ host = "LE"
    /\ HdrLength(host, hdr0) = UdpHdrSize + 1
    /\ Len(hdr0) = UdpHdrSize + 1
    /\ hdr0[UdpHdrSize + 1] # 0
    /\ readField(hdr0, Field("checksum")) # 0
    /\ hdr # hdr0

\* C5: udp_create_pseudo_header fails (returns no pseudo-header) for every
\* IP segment whose version nibble is neither 4 nor 6, and returns the
\* 12-byte IPv4 layout only when the nibble is 4.
C5_VersionSelectsLayout ==
    Returned("create_pseudo_header") =>
        /\ (IpVersion(ip_segment) \notin {4, 6} => psh.null)
        /\ ((~psh.null /\ Len(psh.data) = Ipv4PshSize) =>
                IpVersion(ip_segment) = 4)

\* C6: udp_get_num_fields returns the number of descriptors declared in
\* udp_fields, 4, the terminator not counted.
C6_FieldCount ==
    Returned("get_num_fields") =>
        /\ size_ret = Cardinality(DeclaredFields)
        /\ size_ret = 4

\* C7: udp_write_checksum never returns with its scratch block still
\* allocated; the block is freed at most once, exactly once on the path
\* that allocated it, and is never accessed when it is not live.
C7_ScratchReleased ==
    /\ frees <= 1
    /\ ~uaf
    /\ (heap = "freed" <=> frees = 1)
    /\ (pc = "idle" => heap # "live")
    /\ ((Returned("write_checksum") /\ ret = "true") => frees = 1)
    /\ (pc \in WcStages \ {"wc_alloc"} => heap = "live")

\* a successful call has returned and its block was freed once
C7_Witness ==
    /\ Returned("write_checksum")
    /\ ret = "true"
    /\ heap = "freed"
    /\ frees = 1
    /\ IndexOf(steps, "csum") > 0

\* C8: during udp_write_checksum the header is not modified before the
\* final store, the zeroing precedes the checksum computation which
\* precedes the store, after the call only header bytes 6..7 may differ
\* from their values before it, and the pseudo-header is unchanged.
C8_HeaderFrame ==
    op = "write_checksum" =>
        /\ (pc \in WcStages => hdr = hdr0)
        /\ psh = psh0
        /\ Len(hdr) = Len(hdr0)
        /\ \A i \in 1..Len(hdr) :
               i \notin {OffChecksum + 1, OffChecksum + 2} => hdr[i] = hdr0[i]
        /\ (IndexOf(steps, "csum") > 0 =>
               /\ IndexOf(steps, "zero") > 0
               /\ IndexOf(steps, "zero") < IndexOf(steps, "csum"))
        /\ (IndexOf(steps, "store") > 0 =>
               /\ IndexOf(steps, "csum") > 0
               /\ IndexOf(steps, "csum") < IndexOf(steps, "store"))

\* C9: every write udp_write_checksum makes on its scratch block lies
\* inside the block of size len(pseudo-header) + length field.
C9_ScratchWritesInBounds ==
    /\ (pc = "wc_copy_psh" => Outside(0, Len(psh.data), Len(scratch)) = 0)
    /\ (pc = "wc_copy_seg" =>
           Outside(Len(psh.data), HdrLength(host, hdr), Len(scratch)) = 0)
    /\ (pc = "wc_zero" =>
           Outside(Len(psh.data) + OffChecksum, SizeofU16, Len(scratch)) = 0)
    /\ oobW = 0

\* C10: udp_write_checksum copies at most as many bytes from the caller's
\* buffer as the buffer holds.
C10_NoReadPastSegment ==
    /\ (pc = "wc_copy_seg" => HdrLength(host, hdr) <= Len(hdr))
    /\ oobR = 0

=============================================================================
